---------------------------- MODULE Spec2Model ----------------------------
(***************************************************************************)
(* Model of the YouTube plugin (src/youtube/src/lib.rs): the extractor     *)
(* get_json, the result parser Plugin::parse with QueryResultData::parse,   *)
(* the stream pipeline stream_fn and the regression test regex_extraction.  *)
(*                                                                         *)
(* Texts are sequences of one-character strings, so that the regular       *)
(* expressions, the splitting of the duration text and the formatting of   *)
(* URLs are computed character by character.  All texts of the model are   *)
(* ASCII, so a byte offset of the source is a character position minus 1.  *)
(***************************************************************************)
EXTENDS Integers, Sequences, FiniteSets, TLC

VARIABLES
    text,          \* get_json: the response text
    jsonResult,    \* get_json: what the call did and returned
    testGroup,     \* test::regex_extraction: the group the test looked at
    json,          \* Plugin::parse: the value get_json returned
    parseResult,   \* Plugin::parse: the result of the call
    source,        \* QueryResultData::parse: the videoRenderer value
    itemResult,    \* QueryResultData::parse: the result of the call
    pc,            \* stream_fn: position in the function
    request,       \* stream_fn: its arguments url and file_name
    resolver,      \* stream_fn: exit status and stdout of the resolution tool
    url,           \* stream_fn: the local `url` extracted from the output
    procs,         \* stream_fn: the processes started so far, in order
    streamResult   \* stream_fn: the result of the call

vars ==
    <<text, jsonResult, testGroup, json, parseResult, source, itemResult,
      pc, request, resolver, url, procs, streamResult>>

extractVars == <<text, jsonResult, testGroup>>
parseVars == <<json, parseResult>>
itemVars == <<source, itemResult>>
streamVars == <<pc, request, resolver, url, procs, streamResult>>

-----------------------------------------------------------------------------
(* Bounds of the model. *)

\* Segments a response text is made of, at most.
MaxSegs == 3

-----------------------------------------------------------------------------
(* Character helpers. *)

LowerLetters ==
    {"a", "b", "c", "d", "e", "f", "g", "h", "i", "j", "k", "l", "m", "n", "o", "p", "q", "r",
     "s", "t", "u", "v", "w", "x", "y", "z"}

UpperLetters ==
    {"A", "B", "C", "D", "E", "F", "G", "H", "I", "J", "K", "L", "M", "N", "O", "P", "Q", "R",
     "S", "T", "U", "V", "W", "X", "Y", "Z"}

Digits ==
    {"0", "1", "2", "3", "4", "5", "6", "7", "8", "9"}

\* \s of the regex crate, restricted to the whitespace the model's texts hold.
Whitespace == {" ", "\t", "\n", "\r"}

Min(S) == CHOOSE m \in S : \A n \in S : m <= n
Max(S) == CHOOSE m \in S : \A n \in S : m >= n

\* The literal `lit` occurs in `t` at position i (1-based).
MatchesAt(t, i, lit) ==
    /\ i >= 1
    /\ i + Len(lit) - 1 <= Len(t)
    /\ \A k \in 1..Len(lit) : t[i + k - 1] = lit[k]

\* Length of the longest run of characters of `class` in `t` from position i.
RECURSIVE RunLength(_, _, _)
RunLength(t, i, class) ==
    IF i <= Len(t) /\ t[i] \in class THEN 1 + RunLength(t, i + 1, class) ELSE 0

\* All sequences over S of length at most n.
SeqsUpTo(S, n) == UNION {[1..k -> S] : k \in 0..n}

RECURSIVE Concat(_)
Concat(ss) == IF ss = <<>> THEN <<>> ELSE Head(ss) \o Concat(Tail(ss))

-----------------------------------------------------------------------------
(* The boundary patterns of get_json and of the regression test. *)

\* itemSectionRenderer":
BeginPrefix ==
    <<"i", "t", "e", "m", "S", "e", "c", "t", "i", "o", "n", "R", "e", "n", "d", "e", "r", "e",
    "r", "\"", ":">>

\* {"contents"
BeginGroup ==
    <<"{", "\"", "c", "o", "n", "t", "e", "n", "t", "s", "\"">>

\* ],"trackingParams":"
EndPrefix ==
    <<"]", ",", "\"", "t", "r", "a", "c", "k", "i", "n", "g", "P", "a", "r", "a", "m", "s",
    "\"", ":", "\"">>

\* "
EndQuote ==
    <<"\"">>

\* }
EndGroup ==
    <<"}">>

\* },{"continuationItemRenderer"
EndSuffix ==
    <<"}", ",", "{", "\"", "c", "o", "n", "t", "i", "n", "u", "a", "t", "i", "o", "n", "I",
    "t", "e", "m", "R", "e", "n", "d", "e", "r", "e", "r", "\"">>

\* itemSectionRenderer
TestPrefix ==
    <<"i", "t", "e", "m", "S", "e", "c", "t", "i", "o", "n", "R", "e", "n", "d", "e", "r", "e",
    "r">>

\* {
TestGroupOpen ==
    <<"{">>

\* "contents
TestGroupTail ==
    <<"\"", "c", "o", "n", "t", "e", "n", "t", "s">>

\* ntents":[{"itemSectionRenderer":{"contents":[{
TestFixture ==
    <<"n", "t", "e", "n", "t", "s", "\"", ":", "[", "{", "\"", "i", "t", "e", "m", "S", "e",
    "c", "t", "i", "o", "n", "R", "e", "n", "d", "e", "r", "e", "r", "\"", ":", "{", "\"", "c",
    "o", "n", "t", "e", "n", "t", "s", "\"", ":", "[", "{">>

\* {"contents
TestExpectedText ==
    <<"{", "\"", "c", "o", "n", "t", "e", "n", "t", "s">>

\* ntents":[{"
SegPre ==
    <<"n", "t", "e", "n", "t", "s", "\"", ":", "[", "{", "\"">>

\* itemSectionRenderer":{"contents"
SegBegin ==
    <<"i", "t", "e", "m", "S", "e", "c", "t", "i", "o", "n", "R", "e", "n", "d", "e", "r", "e",
    "r", "\"", ":", "{", "\"", "c", "o", "n", "t", "e", "n", "t", "s", "\"">>

\* itemSectionRenderer": {"contents"
SegBeginSpaced ==
    <<"i", "t", "e", "m", "S", "e", "c", "t", "i", "o", "n", "R", "e", "n", "d", "e", "r", "e",
    "r", "\"", ":", " ", "{", "\"", "c", "o", "n", "t", "e", "n", "t", "s", "\"">>

\* :[{
SegMid ==
    <<":", "[", "{">>

\* }],"trackingParams":"aZ9=_-"}},{"continuationItemRenderer"
SegEnd ==
    <<"}", "]", ",", "\"", "t", "r", "a", "c", "k", "i", "n", "g", "P", "a", "r", "a", "m",
    "s", "\"", ":", "\"", "a", "Z", "9", "=", "_", "-", "\"", "}", "}", ",", "{", "\"", "c",
    "o", "n", "t", "i", "n", "u", "a", "t", "i", "o", "n", "I", "t", "e", "m", "R", "e", "n",
    "d", "e", "r", "e", "r", "\"">>

\* }],"trackingParams":"a!"}},{"continuationItemRenderer"
SegEndBadParams ==
    <<"}", "]", ",", "\"", "t", "r", "a", "c", "k", "i", "n", "g", "P", "a", "r", "a", "m",
    "s", "\"", ":", "\"", "a", "!", "\"", "}", "}", ",", "{", "\"", "c", "o", "n", "t", "i",
    "n", "u", "a", "t", "i", "o", "n", "I", "t", "e", "m", "R", "e", "n", "d", "e", "r", "e",
    "r", "\"">>

\* [a-zA-Z0-9=_-] of the end-boundary pattern.
TrackingParamsClass == LowerLetters \cup UpperLetters \cup Digits \cup {"=", "_", "-"}

NoMatch == [matched |-> FALSE, start |-> 0, end |-> 0]

\* Group 1 of the leftmost match of  itemSectionRenderer":(\{"contents")
\* as a byte range (start inclusive, end exclusive).
BeginCaptures(t) ==
    LET ms == {i \in 1..Len(t) : MatchesAt(t, i, BeginPrefix \o BeginGroup)}
    IN  IF ms = {} THEN NoMatch
        ELSE LET s == (Min(ms) - 1) + Len(BeginPrefix)
             IN  [matched |-> TRUE, start |-> s, end |-> s + Len(BeginGroup)]

\* Position of the `"` that closes the trackingParams value when the end
\* pattern is tried at position i (the class does not hold `"`, so the run is
\* the only way the pattern can continue).
EndQuoteAt(t, i) == i + Len(EndPrefix) + RunLength(t, i + Len(EndPrefix), TrackingParamsClass)

EndMatchesAt(t, i) ==
    /\ MatchesAt(t, i, EndPrefix)
    /\ MatchesAt(t, EndQuoteAt(t, i), EndQuote \o EndGroup \o EndSuffix)

\* Group 1 of the leftmost match of
\*   \],"trackingParams":"[a-zA-Z0-9=_-]*"(\})\},\{"continuationItemRenderer"
EndCaptures(t) ==
    LET ms == {i \in 1..Len(t) : EndMatchesAt(t, i)}
    IN  IF ms = {} THEN NoMatch
        ELSE LET s == (EndQuoteAt(t, Min(ms)) - 1) + Len(EndQuote)
             IN  [matched |-> TRUE, start |-> s, end |-> s + Len(EndGroup)]

\* The group (\{\s*"contents) of the test's pattern tried at position j.
TestGroupEnd(t, j) ==
    j + Len(TestGroupOpen) + RunLength(t, j + Len(TestGroupOpen), Whitespace)

TestGroupAt(t, j) ==
    /\ MatchesAt(t, j, TestGroupOpen)
    /\ MatchesAt(t, TestGroupEnd(t, j), TestGroupTail)

\* Group 1 of the leftmost match of  itemSectionRenderer[\S|\s]*(\{\s*"contents)
\* The class [\S|\s] holds every character and * is greedy: the group is the
\* last place after the prefix where it matches.
TestCaptures(t) ==
    LET groupsAfter(i) == {j \in (i + Len(TestPrefix))..Len(t) : TestGroupAt(t, j)}
        ms == {i \in 1..Len(t) : MatchesAt(t, i, TestPrefix) /\ groupsAfter(i) # {}}
    IN  IF ms = {} THEN NoMatch
        ELSE LET j == Max(groupsAfter(Min(ms)))
             IN  [matched |-> TRUE, start |-> j - 1,
                  end |-> (TestGroupEnd(t, j) - 1) + Len(TestGroupTail)]

\* &text[range.start..range.end]
Slice(t, range) == SubSeq(t, range.start + 1, range.end)

-----------------------------------------------------------------------------
(* get_json *)

NotCalled ==
    [kind |-> "NotCalled", begin_range |-> NoMatch, end_range |-> NoMatch,
     sliced |-> FALSE, slice |-> <<>>]

\* The check of line 162 mutated: the comparison the wrong way round.
RangeInvalidFlipped(begin_range, end_range) == begin_range.start <= end_range.end

\* if begin_range.start >= end_range.end
RangeInvalid(begin_range, end_range) == begin_range.start >= end_range.end

\* A boundary that did not match, mutated: reported as an invalid range.
BoundaryErrorAsRange == "InvalidResponseText"

\* The error of a boundary pattern that does not match.
BoundaryError == "ParsableTextNotFound"

\* get_json(text).  serdeOk is the answer of serde_json::from_str for the
\* slice, which is not code of this repository.
get_json(t, serdeOk) ==
    LET begin_range == BeginCaptures(t)
        end_range == EndCaptures(t)
        ret(kind, b, e, sliced) ==
            [kind |-> kind, begin_range |-> b, end_range |-> e, sliced |-> sliced,
             slice |-> IF sliced THEN Slice(t, [start |-> b.start, end |-> e.end]) ELSE <<>>]
    IN  IF ~begin_range.matched
            THEN ret(BoundaryError, NoMatch, NoMatch, FALSE)
        ELSE IF ~end_range.matched
            THEN ret(BoundaryError, begin_range, NoMatch, FALSE)
        ELSE IF RangeInvalid(begin_range, end_range)
            THEN ret("InvalidResponseText", begin_range, end_range, FALSE)
        ELSE IF serdeOk
            THEN ret("Ok", begin_range, end_range, TRUE)
        ELSE ret("JsonUnparsable", begin_range, end_range, TRUE)

(* test::regex_extraction *)

TestNotRun == [kind |-> "NotRun", str |-> <<>>, start |-> 0, end |-> 0]

\* The test: captures(...).unwrap().get(1).unwrap(), then the two assert_eq!.
regex_extraction ==
    LET group == TestCaptures(TestFixture)
    IN  IF ~group.matched THEN [kind |-> "Panic", str |-> <<>>, start |-> 0, end |-> 0]
        ELSE LET str == Slice(TestFixture, group)
             IN  [kind |-> IF str = TestExpectedText /\ <<group.start, group.end>> = <<32, 42>>
                           THEN "Passed" ELSE "Failed",
                  str |-> str, start |-> group.start, end |-> group.end]

Segments == {SegPre, SegBegin, SegBeginSpaced, SegMid, SegEnd, SegEndBadParams}

Texts == {Concat(ss) : ss \in SeqsUpTo(Segments, MaxSegs)}

-----------------------------------------------------------------------------
(* serde_json::Value, and the helper YTItemParser::read. *)

Obj(m) == [t |-> "Object", m |-> m]
Arr(a) == [t |-> "Array", a |-> a]
Str(s) == [t |-> "String", s |-> s]
Null == [t |-> "Null"]

Ok(v) == [kind |-> "Ok", v |-> v]
Err(e, what) == [kind |-> "Err", error |-> e, what |-> what]
Panic(what) == [kind |-> "Panic", what |-> what]

\* read(&self, field_name): Value::get is None for a missing key and for a
\* value that is no object.
read(v, field_name) ==
    IF v.t = "Object" /\ field_name \in DOMAIN v.m
        THEN Ok(v.m[field_name])
        ELSE Err("JsonUnparsable", field_name)

\* .as_array().unwrap()[0]
first(v) ==
    IF v.t # "Array" THEN Panic("as_array().unwrap()")
    ELSE IF v.a = <<>> THEN Panic("index out of bounds")
    ELSE Ok(v.a[1])

\* .as_str().unwrap()
as_str(v) == IF v.t = "String" THEN Ok(v.s) ELSE Panic("as_str().unwrap()")

\* A chain  source.read(f1)?.read(f2)? ... : each step is the name of a
\* field to read, "[0]" for .as_array().unwrap()[0], or "as_str" for
\* .as_str().unwrap(); the first failing step ends the chain.
RECURSIVE Walk(_, _)
Walk(v, steps) ==
    IF steps = <<>> THEN Ok(v)
    ELSE LET r == CASE Head(steps) = "[0]" -> first(v)
                    [] Head(steps) = "as_str" -> as_str(v)
                    [] OTHER -> read(v, Head(steps))
         IN  IF r.kind = "Ok" /\ Head(steps) # "as_str" THEN Walk(r.v, Tail(steps)) ELSE r

-----------------------------------------------------------------------------
(* Text conversions used by QueryResultData::parse and stream_fn. *)

AlphabetLower ==
    <<"a", "b", "c", "d", "e", "f", "g", "h", "i", "j", "k", "l", "m", "n", "o", "p", "q", "r",
    "s", "t", "u", "v", "w", "x", "y", "z">>

AlphabetUpper ==
    <<"A", "B", "C", "D", "E", "F", "G", "H", "I", "J", "K", "L", "M", "N", "O", "P", "Q", "R",
    "S", "T", "U", "V", "W", "X", "Y", "Z">>

\* https://youtube.com/watch
SOURCE_URL ==
    <<"h", "t", "t", "p", "s", ":", "/", "/", "y", "o", "u", "t", "u", "b", "e", ".", "c", "o",
    "m", "/", "w", "a", "t", "c", "h">>

\* the "?v=" of format!("{}?v={}", SOURCE_URL, track_id)
QueryPrefix ==
    <<"?", "v", "=">>

\* ://
SchemeSeparator ==
    <<":", "/", "/">>

\* /
RootPath ==
    <<"/">>

\* %20
EncodedSpace ==
    <<"%", "2", "0">>

ToLower(c) ==
    IF c \in UpperLetters
        THEN AlphabetLower[CHOOSE i \in 1..Len(AlphabetUpper) : AlphabetUpper[i] = c]
        ELSE c

LowerCase(t) == [i \in 1..Len(t) |-> ToLower(t[i])]

\* First position >= from of a character of `set` in t, Len(t) + 1 if none.
IndexOf(t, set, from) ==
    LET ps == {i \in from..Len(t) : t[i] \in set}
    IN  IF ps = {} THEN Len(t) + 1 ELSE Min(ps)

\* str::trim
Trim(t) ==
    LET ps == {i \in 1..Len(t) : t[i] \notin Whitespace}
    IN  IF ps = {} THEN <<>> ELSE SubSeq(t, Min(ps), Max(ps))

\* duration.split(":"): the pieces between the separators, empty ones kept.
RECURSIVE Split(_)
Split(t) ==
    LET p == IndexOf(t, {":"}, 1)
    IN  IF p > Len(t) THEN <<t>>
        ELSE <<SubSeq(t, 1, p - 1)>> \o Split(SubSeq(t, p + 1, Len(t)))

DigitValue(c) ==
    CASE c = "0" -> 0 [] c = "1" -> 1 [] c = "2" -> 2 [] c = "3" -> 3 [] c = "4" -> 4
      [] c = "5" -> 5 [] c = "6" -> 6 [] c = "7" -> 7 [] c = "8" -> 8 [] c = "9" -> 9

RECURSIVE DecimalValue(_)
DecimalValue(ds) ==
    IF ds = <<>> THEN 0
    ELSE DecimalValue(SubSeq(ds, 1, Len(ds) - 1)) * 10 + DigitValue(ds[Len(ds)])

\* u64::from_str_radix(token, 10): an optional "+" and then one decimal
\* digit or more.  The model's texts are short: no value reaches 2^31, far
\* below the 2^64 at which the source's u64 would overflow.
from_str_radix(token) ==
    LET ds == IF token # <<>> /\ token[1] = "+" THEN Tail(token) ELSE token
    IN  IF token = <<>> THEN Err("ParseIntError", "Empty")
        ELSE IF ds = <<>> \/ \E i \in 1..Len(ds) : ds[i] \notin Digits
            THEN Err("ParseIntError", "InvalidDigit")
        ELSE Ok(DecimalValue(ds))

\* .map(|token| u64::from_str_radix(token, 10).unwrap()).collect()
RECURSIVE duration_tokens(_)
duration_tokens(pieces) ==
    IF pieces = <<>> THEN Ok(<<>>)
    ELSE LET n == from_str_radix(Head(pieces))
             rest == duration_tokens(Tail(pieces))
         IN  IF n.kind # "Ok" THEN Panic("from_str_radix(..).unwrap()")
             ELSE IF rest.kind # "Ok" THEN rest
             ELSE Ok(<<n.v>> \o rest.v)

RECURSIVE Pow(_, _)
Pow(b, e) == IF e = 0 THEN 1 ELSE b * Pow(b, e - 1)

\* The loop mutated: i is decremented after its use instead of before.
RECURSIVE total_duration_late_decrement(_, _, _)
total_duration_late_decrement(tokens, i, total) ==
    IF tokens = <<>> THEN total
    ELSE total_duration_late_decrement(Tail(tokens), i - 1, total + Head(tokens) * Pow(60, i))

\* for token in duration_tokens { i -= 1; total_duration += token * 60_u64.pow(i as u32); }
RECURSIVE total_duration(_, _, _)
total_duration(tokens, i, total) ==
    IF tokens = <<>> THEN total
    ELSE total_duration(Tail(tokens), i - 1, total + Head(tokens) * Pow(60, i - 1))

SchemeChars == LowerLetters \cup UpperLetters \cup Digits \cup {"+", "-", "."}

\* Percent-encoding of the url crate, for the one character of the model's
\* texts that it encodes: the space.
RECURSIVE EncodeSpaces(_)
EncodeSpaces(t) ==
    IF t = <<>> THEN <<>>
    ELSE (IF Head(t) = " " THEN EncodedSpace ELSE <<Head(t)>>) \o EncodeSpaces(Tail(t))

\* reqwest::Url::parse(text), the url crate's parser, for the texts of the
\* model (an http(s) URL or a text without a scheme), and the serialization
\* of the Url it returns: a text without a scheme is refused; scheme and host
\* come out in lower case, an empty path as "/", a space percent-encoded.
UrlParse(s) ==
    LET t == Trim(s)
        p == IndexOf(t, {":"}, 1)
    IN  IF \/ p > Len(t)
           \/ p = 1
           \/ t[1] \notin (LowerLetters \cup UpperLetters)
           \/ \E k \in 2..(p - 1) : t[k] \notin SchemeChars
            THEN Err("InvalidUrl", "RelativeUrlWithoutBase")
        ELSE LET h == p + 1 + RunLength(t, p + 1, {"/"})
                 e == IndexOf(t, {"/", "?", "#"}, h)
                 host == SubSeq(t, h, e - 1)
                 rest == SubSeq(t, e, Len(t))
             IN  IF host = <<>> THEN Err("InvalidUrl", "EmptyHost")
                 ELSE Ok(LowerCase(SubSeq(t, 1, p - 1)) \o SchemeSeparator \o LowerCase(host)
                         \o (IF rest = <<>> \/ rest[1] # "/" THEN RootPath ELSE <<>>)
                         \o EncodeSpaces(rest))

-----------------------------------------------------------------------------
(* QueryResultData::parse *)

ArtistThumbnailPath ==
    <<"channelThumbnailSupportedRenderers", "channelThumbnailWithLinkRenderer",
      "thumbnail", "thumbnails", "[0]", "url", "as_str">>
ArtistNamePath == <<"longBylineText", "runs", "[0]", "text", "as_str">>
DurationPath == <<"lengthText", "simpleText", "as_str">>
TrackIdPath == <<"videoId", "as_str">>
TrackNamePath == <<"title", "runs", "[0]", "text", "as_str">>
TrackThumbnailPath == <<"thumbnail", "thumbnails", "[0]", "url", "as_str">>

\* The url mutated: the id appended without the query parameter.
TrackUrlTextNoQuery(track_id) == SOURCE_URL \o track_id

\* format!("{}?v={}", SOURCE_URL, track_id)
TrackUrlText(track_id) == SOURCE_URL \o QueryPrefix \o track_id

\* QueryResultData::new(track_id, track_name, track_url, track_thumbnail,
\*                      artist_name, artist_thumbnail, duration)
QueryResultData(track_id, track_name, track_url, track_thumbnail, artist_name, artist_thumbnail, duration) ==
    [track_id |-> track_id, track_name |-> track_name, track_url |-> track_url,
     track_thumbnail |-> track_thumbnail, artist_name |-> artist_name,
     artist_thumbnail |-> artist_thumbnail, duration |-> duration]

\* parse(source: &Value) -> Result<QueryResultData, Box<dyn Error>>.
\* Each `?` returns the error of the step; each unwrap panics.
QueryResultData_parse(src) ==
    LET artist_thumbnail_text == Walk(src, ArtistThumbnailPath)
        artist_thumbnail == UrlParse(artist_thumbnail_text.v)
        artist_name == Walk(src, ArtistNamePath)
        duration == Walk(src, DurationPath)
        tokens == duration_tokens(Split(duration.v))
        track_id == Walk(src, TrackIdPath)
        track_url == UrlParse(TrackUrlText(track_id.v))
        track_name == Walk(src, TrackNamePath)
        track_thumbnail_text == Walk(src, TrackThumbnailPath)
        track_thumbnail == UrlParse(track_thumbnail_text.v)
    IN  IF artist_thumbnail_text.kind # "Ok" THEN artist_thumbnail_text
        ELSE IF artist_thumbnail.kind # "Ok" THEN artist_thumbnail
        ELSE IF artist_name.kind # "Ok" THEN artist_name
        ELSE IF duration.kind # "Ok" THEN duration
        ELSE IF tokens.kind # "Ok" THEN tokens
        ELSE IF track_id.kind # "Ok" THEN track_id
        ELSE IF track_url.kind # "Ok" THEN Panic("Url::parse(..).unwrap()")
        ELSE IF track_name.kind # "Ok" THEN track_name
        ELSE IF track_thumbnail_text.kind # "Ok" THEN track_thumbnail_text
        ELSE IF track_thumbnail.kind # "Ok" THEN track_thumbnail
        ELSE Ok(QueryResultData(track_id.v, track_name.v, track_url.v, track_thumbnail.v,
                                artist_name.v, artist_thumbnail.v,
                                total_duration(tokens.v, Len(tokens.v), 0)))

-----------------------------------------------------------------------------
(* Plugin::parse, after get_json *)

\* The loop mutated: a new item is put in front of the ones already parsed.
pushFront(items, item) == <<item>> \o items

\* items.push(item)
push(items, item) == Append(items, item)

\* for token in contents { ... }: an element without "videoRenderer" is
\* skipped; the first item that does not parse ends the call.
RECURSIVE parse_loop(_, _)
parse_loop(tokens, items) ==
    IF tokens = <<>> THEN Ok(items)
    ELSE LET raw == read(Head(tokens), "videoRenderer")
         IN  IF raw.kind = "Ok"
                 THEN LET item == QueryResultData_parse(raw.v)
                      IN  IF item.kind # "Ok" THEN item
                          ELSE parse_loop(Tail(tokens), push(items, item.v))
                 ELSE parse_loop(Tail(tokens), items)

\* parse(&self, _info, resp), from the value get_json returned:
\* json.get("contents").unwrap().as_array().unwrap(), the loop, and
\* Ok(QueryResult::new(items)).
parse(js) ==
    IF ~(js.t = "Object" /\ "contents" \in DOMAIN js.m) THEN Panic("get(\"contents\").unwrap()")
    ELSE IF js.m["contents"].t # "Array" THEN Panic("as_array().unwrap()")
    ELSE parse_loop(js.m["contents"].a, <<>>)

-----------------------------------------------------------------------------
(* The values the parsers are run on. *)

\* dQw4
IdPlain ==
    <<"d", "Q", "w", "4">>

\* x_-9
IdOther ==
    <<"x", "_", "-", "9">>

\* a b
IdWithSpace ==
    <<"a", " ", "b">>

\* Song
TitleOne ==
    <<"S", "o", "n", "g">>

\* Tune
TitleTwo ==
    <<"T", "u", "n", "e">>

\* Band
ArtistOne ==
    <<"B", "a", "n", "d">>

\* Duo
ArtistTwo ==
    <<"D", "u", "o">>

\* https://i.yt/vi/a.jpg
UrlNormal ==
    <<"h", "t", "t", "p", "s", ":", "/", "/", "i", ".", "y", "t", "/", "v", "i", "/", "a", ".",
    "j", "p", "g">>

\* https://yt3.gg/p?s=88
UrlQuery ==
    <<"h", "t", "t", "p", "s", ":", "/", "/", "y", "t", "3", ".", "g", "g", "/", "p", "?", "s",
    "=", "8", "8">>

\* https://yt3.gg
UrlNoPath ==
    <<"h", "t", "t", "p", "s", ":", "/", "/", "y", "t", "3", ".", "g", "g">>

\* https://I.YT/vi/a.jpg
UrlUpperHost ==
    <<"h", "t", "t", "p", "s", ":", "/", "/", "I", ".", "Y", "T", "/", "v", "i", "/", "a", ".",
    "j", "p", "g">>

\* //yt3.gg/p
UrlRelative ==
    <<"/", "/", "y", "t", "3", ".", "g", "g", "/", "p">>

\* /watch?v=zzzz
UrlInPayload ==
    <<"/", "w", "a", "t", "c", "h", "?", "v", "=", "z", "z", "z", "z">>

\* 3:45
Duration345 ==
    <<"3", ":", "4", "5">>

\* 0:09
Duration009 ==
    <<"0", ":", "0", "9">>

\* 1:02:03
Duration10203 ==
    <<"1", ":", "0", "2", ":", "0", "3">>

\* +5:07
DurationPlus ==
    <<"+", "5", ":", "0", "7">>

\* 3:4x
DurationBad ==
    <<"3", ":", "4", "x">>

\* One element's "videoRenderer" value with every field the parser reads.
VideoRenderer(id, title, artist, artistThumb, thumb, dur) ==
    Obj(   "channelThumbnailSupportedRenderers" :>
               Obj("channelThumbnailWithLinkRenderer" :>
                   Obj("thumbnail" :> Obj("thumbnails" :> Arr(<<Obj("url" :> Str(artistThumb))>>))))
        @@ "longBylineText" :> Obj("runs" :> Arr(<<Obj("text" :> Str(artist))>>))
        @@ "lengthText" :> Obj("simpleText" :> Str(dur))
        @@ "videoId" :> Str(id)
        @@ "title" :> Obj("runs" :> Arr(<<Obj("text" :> Str(title))>>))
        @@ "thumbnail" :> Obj("thumbnails" :> Arr(<<Obj("url" :> Str(thumb))>>)))

\* v with the value at `path` replaced by w ("[0]" steps into an array).
RECURSIVE Replace(_, _, _)
Replace(v, path, w) ==
    IF path = <<>> THEN w
    ELSE IF Head(path) = "[0]"
        THEN Arr(<<Replace(v.a[1], Tail(path), w)>> \o Tail(v.a))
    ELSE Obj([v.m EXCEPT ![Head(path)] = Replace(@, Tail(path), w)])

\* v without the field at the end of `path`.
RECURSIVE Remove(_, _)
Remove(v, path) ==
    IF Len(path) = 1
        THEN Obj([k \in DOMAIN v.m \ {Head(path)} |-> v.m[k]])
    ELSE IF Head(path) = "[0]"
        THEN Arr(<<Remove(v.a[1], Tail(path))>> \o Tail(v.a))
    ELSE Obj([v.m EXCEPT ![Head(path)] = Remove(@, Tail(path))])

\* The places of the named fields, in the order the parser reads them.
FieldPaths ==
    <<  <<"channelThumbnailSupportedRenderers">>,
        <<"channelThumbnailSupportedRenderers", "channelThumbnailWithLinkRenderer">>,
        <<"channelThumbnailSupportedRenderers", "channelThumbnailWithLinkRenderer", "thumbnail">>,
        <<"channelThumbnailSupportedRenderers", "channelThumbnailWithLinkRenderer", "thumbnail",
          "thumbnails">>,
        <<"channelThumbnailSupportedRenderers", "channelThumbnailWithLinkRenderer", "thumbnail",
          "thumbnails", "[0]", "url">>,
        <<"longBylineText">>,
        <<"longBylineText", "runs">>,
        <<"longBylineText", "runs", "[0]", "text">>,
        <<"lengthText">>,
        <<"lengthText", "simpleText">>,
        <<"videoId">>,
        <<"title">>,
        <<"title", "runs">>,
        <<"title", "runs", "[0]", "text">>,
        <<"thumbnail">>,
        <<"thumbnail", "thumbnails">>,
        <<"thumbnail", "thumbnails", "[0]", "url">>  >>

Range(f) == {f[x] : x \in DOMAIN f}
Last(s) == s[Len(s)]

Ids == {IdPlain, IdOther, IdWithSpace}
Titles == {TitleOne, TitleTwo}
Artists == {ArtistOne, ArtistTwo}
UrlTexts == {UrlNormal, UrlQuery, UrlNoPath, UrlUpperHost, UrlRelative}
SampleDurations == {Duration345, Duration009, Duration10203, DurationPlus}

BaseRenderer == VideoRenderer(IdPlain, TitleOne, ArtistOne, UrlQuery, UrlNormal, Duration345)

\* Bound: characters of a duration text, at most.
MaxLen == 5

DurationChars == {"3", "4", "5", ":", "x"}
DurationTexts == SeqsUpTo(DurationChars, MaxLen) \cup SampleDurations \cup {DurationBad}

\* A renderer with one more URL in it, under a field the parser does not read.
WithPayloadUrl(r) == Obj(r.m @@ "navigationEndpoint" :> Obj("url" :> Str(UrlInPayload)))

SetDuration(r, d) == Replace(r, <<"lengthText", "simpleText">>, Str(d))
SetArtistThumbnail(r, u) == Replace(r, SubSeq(ArtistThumbnailPath, 1, Len(ArtistThumbnailPath) - 1), Str(u))

\* Renderers with every field, over all the leaf values.
CompleteRenderers ==
    {VideoRenderer(id, ti, ar, at, th, d) :
        id \in Ids, ti \in Titles, ar \in Artists, at \in UrlTexts, th \in UrlTexts,
        d \in {Duration345, Duration10203}}

\* Renderers that differ from BaseRenderer in the duration text alone.
DurationRenderers == {SetDuration(BaseRenderer, d) : d \in DurationTexts}

\* Renderers with a field missing, alone or after a malformed leaf, and
\* renderers whose values have another JSON type than the parser unwraps.
BrokenRenderers ==
    LET bases == {BaseRenderer, SetDuration(BaseRenderer, DurationBad),
                  SetArtistThumbnail(BaseRenderer, UrlRelative)}
    IN  {Remove(b, p) : b \in bases, p \in Range(FieldPaths)}
        \cup {Replace(BaseRenderer, <<"thumbnail", "thumbnails">>, Arr(<<>>)),
              Replace(BaseRenderer, <<"title", "runs">>, Str(TitleOne)),
              Replace(BaseRenderer, <<"videoId">>, Null),
              Null}

Sources ==
    CompleteRenderers \cup {WithPayloadUrl(r) : r \in CompleteRenderers}
    \cup DurationRenderers \cup BrokenRenderers

\* Bound: elements of the item array, at most.
MaxItems == 3

Video(r) == Obj("videoRenderer" :> r)

\* Elements of another kind: one with another renderer, one that is no object.
OtherElements == {Obj("shelfRenderer" :> Obj("title" :> Str(TitleTwo))), Str(TitleTwo)}

\* The well-formed renderers of the item arrays.
GoodRenderers ==
    {VideoRenderer(id, TitleOne, ArtistOne, UrlQuery, UrlNormal, Duration345) :
        id \in {IdPlain, IdOther}}

BadRenderers ==
    {Remove(BaseRenderer, FieldPaths[1]),
     Remove(BaseRenderer, <<"videoId">>),
     Remove(BaseRenderer, Last(FieldPaths)),
     SetDuration(BaseRenderer, DurationBad),
     Remove(SetDuration(BaseRenderer, DurationBad), <<"videoId">>),
     SetArtistThumbnail(BaseRenderer, UrlRelative),
     Remove(SetArtistThumbnail(BaseRenderer, UrlRelative), <<"title">>)}

Elements == {Video(r) : r \in GoodRenderers \cup BadRenderers} \cup OtherElements

\* The values get_json can hand to the parser: an object whose "contents"
\* is an item array, and objects where it is not.
Jsons ==
    {Obj("contents" :> Arr(a) @@ "trackingParams" :> Str(TitleOne)) :
        a \in SeqsUpTo(Elements, MaxItems)}
    \cup {Obj("contents" :> Str(TitleOne)), Obj("trackingParams" :> Str(TitleOne))}

-----------------------------------------------------------------------------
(* stream_fn *)

\* https://
HttpsPrefix ==
    <<"h", "t", "t", "p", "s", ":", "/", "/">>

\* the "file:" of format!("file:{}", file_name)
FilePrefix ==
    <<"f", "i", "l", "e", ":">>

\* https://r1.gv/v?e=1
OutUrlOne ==
    <<"h", "t", "t", "p", "s", ":", "/", "/", "r", "1", ".", "g", "v", "/", "v", "?", "e", "=",
    "1">>

\* https://r2.gv/a
OutUrlTwo ==
    <<"h", "t", "t", "p", "s", ":", "/", "/", "r", "2", ".", "g", "v", "/", "a">>

\* http://r3.gv/a
OutHttp ==
    <<"h", "t", "t", "p", ":", "/", "/", "r", "3", ".", "g", "v", "/", "a">>

\* WARNING
OutWarning ==
    <<"W", "A", "R", "N", "I", "N", "G">>

\* a line feed
OutNewline ==
    <<"\n">>

\* a space
OutSpace ==
    <<" ">>

\* https://youtube.com/watch?v=dQw4
TrackUrlOne ==
    <<"h", "t", "t", "p", "s", ":", "/", "/", "y", "o", "u", "t", "u", "b", "e", ".", "c", "o",
    "m", "/", "w", "a", "t", "c", "h", "?", "v", "=", "d", "Q", "w", "4">>

\* https://youtube.com/watch?v=x_-9
TrackUrlTwo ==
    <<"h", "t", "t", "p", "s", ":", "/", "/", "y", "o", "u", "t", "u", "b", "e", ".", "c", "o",
    "m", "/", "w", "a", "t", "c", "h", "?", "v", "=", "x", "_", "-", "9">>

\* out.mp3
FileNameOne ==
    <<"o", "u", "t", ".", "m", "p", "3">>

\* A byte that is not valid UTF-8, as one character of the output.
InvalidByte == <<"<0xFF>">>

\* Bound: segments of the resolution tool's output, at most.
MaxOutSegs == 3

OutSegments == {OutUrlOne, OutUrlTwo, OutHttp, OutWarning, OutNewline, OutSpace, InvalidByte}
Outputs == {Concat(ss) : ss \in SeqsUpTo(OutSegments, MaxOutSegs)}

\* std::str::from_utf8(&urls.stdout) is Ok
ValidUtf8(out) == \A i \in 1..Len(out) : <<out[i]>> # InvalidByte

\* The pattern (https://.*)\s*$ can match from position i: `.` is any
\* character but the line feed and `$` is the end of the text, so from the
\* first line feed after the prefix on, only whitespace may follow.
UrlMatchesAt(out, i) ==
    /\ MatchesAt(out, i, HttpsPrefix)
    /\ \A k \in IndexOf(out, {"\n"}, i + Len(HttpsPrefix))..Len(out) : out[k] \in Whitespace

\* regex.captures(urls), then matches.get(0): the leftmost match, which
\* runs to the end of the text.
UrlCaptures(out) ==
    LET ms == {i \in 1..Len(out) : UrlMatchesAt(out, i)}
    IN  IF ms = {} THEN NoMatch
        ELSE [matched |-> TRUE, start |-> Min(ms) - 1, end |-> Len(out)]

NotReturned == [kind |-> "NotReturned"]

\* stream_getter.args(["-i", url])
TranscoderInput(req, resolved) == resolved

Requests == {[url |-> u, file_name |-> FileNameOne] : u \in {TrackUrlOne, TrackUrlTwo}}

-----------------------------------------------------------------------------
(* The state machine. *)

IdleResult == [kind |-> "Idle"]
IdleRequest == [url |-> <<>>, file_name |-> <<>>]
IdleResolver == [launched |-> FALSE, status |-> 0, stdout |-> <<>>]

ExtractIdle ==
    /\ text = <<>>
    /\ jsonResult = [NotCalled EXCEPT !.kind = "Idle"]
    /\ testGroup = [TestNotRun EXCEPT !.kind = "Idle"]
ParseIdle == json = Null /\ parseResult = IdleResult
ItemIdle == source = Null /\ itemResult = IdleResult
StreamIdle ==
    /\ pc = "idle" /\ request = IdleRequest /\ resolver = IdleResolver
    /\ url = <<>> /\ procs = <<>> /\ streamResult = NotReturned

\* A response text arrives; neither get_json nor the test has run.
InitExtract ==
    /\ text \in Texts /\ jsonResult = NotCalled /\ testGroup = TestNotRun
    /\ ParseIdle /\ ItemIdle /\ StreamIdle

\* get_json has returned a value; Plugin::parse has not yet gone through it.
InitParse ==
    /\ json \in Jsons /\ parseResult = [kind |-> "NotCalled"]
    /\ ExtractIdle /\ ItemIdle /\ StreamIdle

\* QueryResultData::parse is about to be called on a videoRenderer value.
InitItem ==
    /\ source \in Sources /\ itemResult = [kind |-> "NotCalled"]
    /\ ExtractIdle /\ ParseIdle /\ StreamIdle

\* stream_fn is called.
InitStream ==
    /\ pc = "start" /\ request \in Requests /\ resolver = IdleResolver
    /\ url = <<>> /\ procs = <<>> /\ streamResult = NotReturned
    /\ ExtractIdle /\ ParseIdle /\ ItemIdle

Init == InitExtract \/ InitParse \/ InitItem \/ InitStream

\* get_json(&text)
GetJsonCall ==
    /\ jsonResult.kind = "NotCalled"
    /\ \E serdeOk \in BOOLEAN : jsonResult' = get_json(text, serdeOk)
    /\ UNCHANGED <<text, testGroup, parseVars, itemVars, streamVars>>

\* cargo test: test::regex_extraction
RegexExtractionTest ==
    /\ testGroup.kind = "NotRun"
    /\ testGroup' = regex_extraction
    /\ UNCHANGED <<text, jsonResult, parseVars, itemVars, streamVars>>

\* Plugin::parse, from line 53 on
ParseCall ==
    /\ parseResult.kind = "NotCalled"
    /\ parseResult' = parse(json)
    /\ UNCHANGED <<json, extractVars, itemVars, streamVars>>

\* QueryResultData::parse(source)
ItemParseCall ==
    /\ itemResult.kind = "NotCalled"
    /\ itemResult' = QueryResultData_parse(source)
    /\ UNCHANGED <<source, extractVars, parseVars, streamVars>>

\* url_getter.output()?: the tool cannot be started and the error is returned.
ResolverLaunchFails ==
    /\ pc = "start"
    /\ pc' = "done"
    /\ streamResult' = Err("Io", "youtube-dl")
    /\ UNCHANGED <<request, resolver, url, procs, extractVars, parseVars, itemVars>>

\* url_getter.output()?: the tool runs to its end; its exit status and its
\* standard output are whatever the tool made them.
ResolverRuns ==
    /\ pc = "start"
    /\ \E status \in {0, 1}, out \in Outputs :
          /\ resolver' = [launched |-> TRUE, status |-> status, stdout |-> out]
          /\ procs' = Append(procs, [program |-> "youtube-dl", input |-> request.url,
                                     output |-> <<>>, state |-> "exited"])
    /\ pc' = "resolved"
    /\ UNCHANGED <<request, url, streamResult, extractVars, parseVars, itemVars>>

\* Lines 97 to 114: from_utf8(..).unwrap(), the pattern, the trimmed match.
\* Group 0 of a match is always there, so the inner error is never returned.
ExtractUrl ==
    /\ pc = "resolved"
    /\ IF ~ValidUtf8(resolver.stdout)
         THEN /\ streamResult' = Panic("from_utf8(..).unwrap()")
              /\ pc' = "done"
              /\ url' = url
         ELSE LET matches == UrlCaptures(resolver.stdout)
              IN  IF matches.matched
                    THEN /\ url' = Trim(Slice(resolver.stdout, matches))
                         /\ pc' = "extracted"
                         /\ streamResult' = streamResult
                    ELSE /\ streamResult' = Err("StreamError", "No download url found")
                         /\ pc' = "done"
                         /\ url' = url
    /\ UNCHANGED <<request, resolver, procs, extractVars, parseVars, itemVars>>

\* Lines 116 to 128: the ffmpeg command and spawn()?.
SpawnTranscoder ==
    /\ pc = "extracted"
    /\ pc' = "done"
    /\ \E spawned \in BOOLEAN :
          IF spawned
            THEN /\ procs' = Append(procs, [program |-> "ffmpeg",
                                            input |-> TranscoderInput(request, url),
                                            output |-> FilePrefix \o request.file_name,
                                            state |-> "running"])
                 /\ streamResult' = Ok(Len(procs) + 1)
            ELSE /\ procs' = procs
                 /\ streamResult' = Err("Io", "ffmpeg")
    /\ UNCHANGED <<request, resolver, url, extractVars, parseVars, itemVars>>

NextExtract == GetJsonCall \/ RegexExtractionTest
NextParse == ParseCall
NextItem == ItemParseCall
NextStream == ResolverLaunchFails \/ ResolverRuns \/ ExtractUrl \/ SpawnTranscoder

Next == NextExtract \/ NextParse \/ NextItem \/ NextStream

SpecExtract == InitExtract /\ [][NextExtract]_vars
SpecParse == InitParse /\ [][NextParse]_vars
SpecItem == InitItem /\ [][NextItem]_vars
SpecStream == InitStream /\ [][NextStream]_vars
Spec == Init /\ [][Next]_vars

-----------------------------------------------------------------------------
(* Properties of get_json and of the regression test, under SpecExtract. *)

GetJsonReturned == jsonResult.kind \notin {"NotCalled", "Idle"}

\* C4: when both boundary patterns match and the start of the begin group
\* is at or after the end of the end group, get_json returns
\* InvalidResponseText and takes no slice; a slice is only ever taken, and
\* handed to the JSON parser, with start < end, and it is that range of the text.
C4_InvertedRangeIsRefused ==
    GetJsonReturned =>
        LET b == BeginCaptures(text)
            e == EndCaptures(text)
        IN  /\ (b.matched /\ e.matched /\ b.start >= e.end)
                => (jsonResult.kind = "InvalidResponseText" /\ ~jsonResult.sliced)
            /\ jsonResult.sliced
                => /\ b.matched /\ e.matched /\ b.start < e.end
                   /\ jsonResult.slice = SubSeq(text, b.start + 1, e.end)
            /\ jsonResult.kind \in {"Ok", "JsonUnparsable"} <=> jsonResult.sliced

\* C4 witness: the end marker stands before the begin marker and the call
\* has returned InvalidResponseText.
C4_Witness ==
    /\ text = SegEnd \o SegBegin \o SegMid
    /\ jsonResult.kind = "InvalidResponseText"

\* C5: when the begin pattern or the end pattern matches nowhere in the
\* text, get_json returns ParsableTextNotFound, whichever of the two it is
\* and whether or not the other matches, and nothing is sliced.
C5_MissingBoundaryIsNotFound ==
    GetJsonReturned =>
        ((~BeginCaptures(text).matched \/ ~EndCaptures(text).matched)
            => (jsonResult.kind = "ParsableTextNotFound" /\ ~jsonResult.sliced))

\* C5 witness: the fixture with its end marker removed (the begin pattern
\* matches, the end pattern does not) has been answered ParsableTextNotFound.
C5_Witness ==
    /\ text = SegPre \o SegBegin \o SegMid
    /\ BeginCaptures(text).matched
    /\ ~EndCaptures(text).matched
    /\ jsonResult.kind = "ParsableTextNotFound"

\* C7, as claimed: on the fixture of the regression test the begin pattern
\* of get_json captures the text {"contents at offsets (32, 42), the group
\* the test asserts.
C7_ExtractorGroupIsTheTestedGroup ==
    (text = TestFixture /\ GetJsonReturned)
        => /\ jsonResult.begin_range.matched
           /\ Slice(text, jsonResult.begin_range) = TestExpectedText
           /\ <<jsonResult.begin_range.start, jsonResult.begin_range.end>> = <<32, 42>>

-----------------------------------------------------------------------------
(* Properties of Plugin::parse, under SpecParse. *)

ParseReturned == parseResult.kind \notin {"NotCalled", "Idle"}

HasContentsArray == json.t = "Object" /\ "contents" \in DOMAIN json.m /\ json.m["contents"].t = "Array"

\* The item array handed to the parser.
Contents == json.m["contents"].a

\* The element carries the item-kind field.
CarriesVideoRenderer(el) == el.t = "Object" /\ "videoRenderer" \in DOMAIN el.m

RendererOf(el) == el.m["videoRenderer"]

\* The named fields a renderer lacks: the fields of FieldPaths that are not
\* there although the value they are read from is.
MissingFields(r) ==
    {Last(p) : p \in {q \in Range(FieldPaths) :
                        /\ Walk(r, SubSeq(q, 1, Len(q) - 1)).kind = "Ok"
                        /\ Walk(r, q).kind = "Err"}}

\* C1: when every element that carries videoRenderer is well-formed, the
\* call returns a QueryResult with exactly one record per such element, in
\* the order of the array: elements without videoRenderer are skipped without
\* error, and no record is reordered, dropped or deduplicated.
C1_OneRecordPerItemInArrayOrder ==
    (/\ ParseReturned
     /\ HasContentsArray
     /\ \A i \in 1..Len(Contents) :
            CarriesVideoRenderer(Contents[i]) => RendererOf(Contents[i]) \in GoodRenderers)
        => LET items == SelectSeq(Contents, CarriesVideoRenderer)
           IN  /\ parseResult.kind = "Ok"
               /\ Len(parseResult.v) = Len(items)
               /\ \A i \in 1..Len(items) :
                      parseResult.v[i].track_id = RendererOf(items[i]).m["videoId"].s

\* C1 witness: an array of an item, an element of another kind and the
\* same item once more has been parsed into two records.
C1_Witness ==
    /\ HasContentsArray
    /\ Contents = <<Video(VideoRenderer(IdOther, TitleOne, ArtistOne, UrlQuery, UrlNormal, Duration345)),
                    Obj("shelfRenderer" :> Obj("title" :> Str(TitleTwo))),
                    Video(VideoRenderer(IdOther, TitleOne, ArtistOne, UrlQuery, UrlNormal, Duration345))>>
    /\ parseResult.kind = "Ok"
    /\ Len(parseResult.v) = 2

\* C2, as claimed: when an element that carries videoRenderer lacks one of
\* the named fields, the call returns an error that names a missing field
\* (and so no QueryResult), however many elements were parsed before it.
C2_MissingFieldIsNamed ==
    (/\ ParseReturned
     /\ HasContentsArray
     /\ \E i \in 1..Len(Contents) :
            CarriesVideoRenderer(Contents[i]) /\ MissingFields(RendererOf(Contents[i])) # {})
        => /\ parseResult.kind = "Err"
           /\ parseResult.error = "JsonUnparsable"
           /\ \E i \in 1..Len(Contents) :
                  /\ CarriesVideoRenderer(Contents[i])
                  /\ parseResult.what \in MissingFields(RendererOf(Contents[i]))

\* C3, as claimed: when the first item that is not well-formed has a
\* duration text with a component that is no decimal number, the call
\* returns an error value: it does not crash and returns no QueryResult.
C3_MalformedDurationIsAnError ==
    (/\ ParseReturned
     /\ HasContentsArray
     /\ \E i \in 1..Len(Contents) :
            /\ CarriesVideoRenderer(Contents[i])
            /\ RendererOf(Contents[i]) = SetDuration(BaseRenderer, DurationBad)
            /\ \A j \in 1..(i - 1) :
                   CarriesVideoRenderer(Contents[j]) => RendererOf(Contents[j]) \in GoodRenderers)
        => parseResult.kind = "Err"

-----------------------------------------------------------------------------
(* Properties of QueryResultData::parse, under SpecItem. *)

ItemReturned == itemResult.kind \notin {"NotCalled", "Idle"}

LeafPaths ==
    {ArtistThumbnailPath, ArtistNamePath, DurationPath, TrackIdPath, TrackNamePath,
     TrackThumbnailPath}

\* The source has every field the parser reads, with a string at each leaf.
Complete(src) == \A p \in LeafPaths : Walk(src, p).kind = "Ok"

Leaf(src, p) == Walk(src, p).v

\* n >= 1 components separated by ":", each one decimal digit or more.
DecimalComponents(t) ==
    \A k \in 1..Len(Split(t)) :
        /\ Split(t)[k] # <<>>
        /\ \A i \in 1..Len(Split(t)[k]) : Split(t)[k][i] \in Digits

\* The sum over the components of value * 60^i, i counted from the right
\* starting at 0.
RECURSIVE PositionalSeconds(_, _)
PositionalSeconds(pieces, k) ==
    IF k > Len(pieces) THEN 0
    ELSE DecimalValue(pieces[k]) * Pow(60, Len(pieces) - k) + PositionalSeconds(pieces, k + 1)

\* C6: for a duration text of n >= 1 decimal components separated by ":",
\* the parsed duration is the sum of value * 60^i over the components, i the
\* position from the right starting at 0; "3:45" gives 225, "1:02:03" gives
\* 3723 and "0:09" gives 9.
C6_DurationIsPositionalSum ==
    (/\ ItemReturned
     /\ Complete(source)
     /\ source = SetDuration(BaseRenderer, Leaf(source, DurationPath))
     /\ DecimalComponents(Leaf(source, DurationPath)))
        => LET t == Leaf(source, DurationPath)
           IN  /\ itemResult.kind = "Ok"
               /\ itemResult.v.duration = PositionalSeconds(Split(t), 1)
               /\ t = Duration345 => itemResult.v.duration = 225
               /\ t = Duration10203 => itemResult.v.duration = 3723
               /\ t = Duration009 => itemResult.v.duration = 9

\* C6 witness: the three-component text "1:02:03" has been parsed to 3723 s.
C6_Witness ==
    /\ Complete(source)
    /\ Leaf(source, DurationPath) = Duration10203
    /\ source = SetDuration(BaseRenderer, Duration10203)
    /\ itemResult.kind = "Ok"
    /\ itemResult.v.duration = 3723

\* The leaf values are well-formed: both thumbnail texts are absolute
\* https URLs and the duration text is made of decimal components.
WellFormed(src) ==
    /\ Complete(src)
    /\ MatchesAt(Leaf(src, ArtistThumbnailPath), 1, HttpsPrefix)
    /\ MatchesAt(Leaf(src, TrackThumbnailPath), 1, HttpsPrefix)
    /\ DecimalComponents(Leaf(src, DurationPath))

\* What the record holds for the texts that are copied.
CopiedFieldsMatch(src, rec) ==
    /\ rec.track_id = Leaf(src, TrackIdPath)
    /\ rec.track_name = Leaf(src, TrackNamePath)
    /\ rec.artist_name = Leaf(src, ArtistNamePath)
    /\ rec.duration = PositionalSeconds(Split(Leaf(src, DurationPath)), 1)

\* C10, as claimed: the record of a well-formed item has id, title, artist
\* name, both thumbnail URLs and duration equal to the input values, and its
\* url is the watch-page base URL followed by ?v=<id>.
C10_RecordEqualsInput ==
    (ItemReturned /\ WellFormed(source))
        => /\ itemResult.kind = "Ok"
           /\ CopiedFieldsMatch(source, itemResult.v)
           /\ itemResult.v.artist_thumbnail = Leaf(source, ArtistThumbnailPath)
           /\ itemResult.v.track_thumbnail = Leaf(source, TrackThumbnailPath)
           /\ itemResult.v.track_url = SOURCE_URL \o QueryPrefix \o Leaf(source, TrackIdPath)

\* The serialization of a thumbnail text of the model by the URL parser,
\* written out: the host in lower case, "/" for an empty path.
SerializedUrl(u) ==
    CASE u = UrlNoPath -> UrlNoPath \o RootPath
      [] u = UrlUpperHost -> UrlNormal
      [] OTHER -> u

\* The text is already as the URL parser serializes it.
InNormalForm(u) ==
    /\ \A i \in 1..Len(u) : u[i] \notin UpperLetters \cup {" "}
    /\ IndexOf(u, {"/"}, Len(HttpsPrefix) + 1) <= Len(u)

\* C10, amended: id, title, artist name and duration equal the input; each
\* thumbnail URL is the URL parser's serialization of the input text, equal
\* to it when the text is in normal form; url is the serialization of the
\* base URL followed by ?v=<id> (a space of the id as %20), equal to that
\* text when the id needs no encoding, whatever else the payload holds.
C10_RecordEqualsNormalizedInput ==
    (ItemReturned /\ WellFormed(source))
        => /\ itemResult.kind = "Ok"
           /\ CopiedFieldsMatch(source, itemResult.v)
           /\ itemResult.v.artist_thumbnail = SerializedUrl(Leaf(source, ArtistThumbnailPath))
           /\ itemResult.v.track_thumbnail = SerializedUrl(Leaf(source, TrackThumbnailPath))
           /\ InNormalForm(Leaf(source, ArtistThumbnailPath))
                => itemResult.v.artist_thumbnail = Leaf(source, ArtistThumbnailPath)
           /\ InNormalForm(Leaf(source, TrackThumbnailPath))
                => itemResult.v.track_thumbnail = Leaf(source, TrackThumbnailPath)
           /\ itemResult.v.track_url
                = EncodeSpaces(SOURCE_URL \o QueryPrefix \o Leaf(source, TrackIdPath))
           /\ (\A i \in 1..Len(Leaf(source, TrackIdPath)) : Leaf(source, TrackIdPath)[i] # " ")
                => itemResult.v.track_url
                     = SOURCE_URL \o QueryPrefix \o Leaf(source, TrackIdPath)

\* C10 witness: an item with another URL in its payload, a thumbnail text
\* without a path and one with an upper-case host has been parsed.
C10_Witness ==
    /\ source = WithPayloadUrl(VideoRenderer(IdOther, TitleTwo, ArtistTwo, UrlNoPath,
                                             UrlUpperHost, Duration10203))
    /\ itemResult.kind = "Ok"
    /\ itemResult.v.track_id = IdOther

-----------------------------------------------------------------------------
(* Properties of stream_fn, under SpecStream. *)

TranscoderSpawned == \E i \in 1..Len(procs) : procs[i].program = "ffmpeg"

\* The output holds an https:// token that runs to the end of the output,
\* followed by whitespace alone: it starts at i, runs without a line feed
\* through j, and only whitespace stands after j.
HasTrailingHttpsToken(out) ==
    \E i \in 1..Len(out) : \E j \in i..Len(out) :
        /\ MatchesAt(out, i, HttpsPrefix)
        /\ j >= i + Len(HttpsPrefix) - 1
        /\ \A k \in i..j : out[k] # "\n"
        /\ \A k \in (j + 1)..Len(out) : out[k] \in Whitespace

\* C8, as claimed: the resolution tool has run to its end before anything
\* else happens; ffmpeg is spawned only after a URL was extracted from the
\* tool's output, with that URL as its input; and when the output holds no
\* trailing https:// token, stream_fn returns the "No download url found"
\* error and spawns no ffmpeg.
C8_ResolveThenSpawnOrNoUrlError ==
    /\ \A i \in 1..Len(procs) :
           procs[i].program = "ffmpeg"
               => /\ i = 2
                  /\ procs[1].program = "youtube-dl"
                  /\ procs[1].state = "exited"
                  /\ url # <<>>
                  /\ procs[i].input = url
                  /\ MatchesAt(url, 1, HttpsPrefix)
                  /\ \E k \in 1..Len(resolver.stdout) : MatchesAt(resolver.stdout, k, url)
    /\ (pc = "done" /\ resolver.launched /\ ~HasTrailingHttpsToken(resolver.stdout))
           => /\ streamResult = Err("StreamError", "No download url found")
              /\ ~TranscoderSpawned

\* C9, as claimed: when the resolution tool exits with a non-zero status,
\* stream_fn fails and spawns no ffmpeg, whatever the tool wrote; and an
\* empty output is reported with another error than an output without a URL.
C9_FailedToolIsAnError ==
    /\ (resolver.launched /\ resolver.status # 0)
           => /\ ~TranscoderSpawned
              /\ pc \in {"extracted", "done"} => streamResult.kind = "Err"
    /\ (pc = "done" /\ resolver.launched /\ resolver.status = 0 /\ resolver.stdout = <<>>)
           => /\ streamResult.kind = "Err"
              /\ streamResult # Err("StreamError", "No download url found")

=============================================================================
